---- MODULE Spec2Model ----
(***************************************************************************)
(* Model of src/bot.py: the receipt validation and anti-fraud pipeline and *)
(* the access-code issuance lifecycle of the payment bot.                  *)
(*                                                                         *)
(* Strings that the code inspects character by character (receipt text,    *)
(* file names) are sequences of one-character strings.  Characters outside *)
(* ASCII are written by name: "<tenge>" is the currency sign U+20B8, and   *)
(* "<te>", "<ghe>", "<ie>", "<en>" are the Cyrillic letters of the         *)
(* currency words.  Tariff names are transliterated.                       *)
(*                                                                         *)
(* Time is counted in whole minutes since 1970-01-01 00:00 (the receipt    *)
(* patterns have minute resolution); datetime.now() and the store's NOW()  *)
(* read the same clock, the variable now.                                  *)
(***************************************************************************)
EXTENDS Integers, Sequences, FiniteSets, TLC

VARIABLES
    now,                  \* the wall clock, minutes
    user_tariffs,         \* bot.py:90  user id -> chosen tariff (absent: NoTariff)
    codes,                \* table codes
    receipt_transactions, \* table receipt_transactions (receipt_id unique)
    suspicious_receipts,  \* table suspicious_receipts ((user_id, file_name) unique)
    payments,             \* table payments, one entry per inserted row
    notified,             \* webhook POSTs attempted, in order
    offered,              \* user id -> tariff buttons of keyboards still in the chat
    proc,                 \* handler task -> its position and locals
    nCodes,               \* number of token pairs drawn from secrets so far
    nEvents,              \* inbound events dispatched so far
    accepted,             \* history: (user, tariff) pairs of the receipts validation accepted
    nAccepted,            \* history: user id -> number of receipts validation accepted
    issued                \* history: the results generate_code has returned

vars == <<now, user_tariffs, codes, receipt_transactions, suspicious_receipts,
          payments, notified, offered, proc, nCodes, nEvents, accepted, nAccepted, issued>>

(***************************************************************************)
(* Bounds of the model                                                     *)
(***************************************************************************)
MaxEvents == 4      \* inbound events in a concurrent run
MaxSeqEvents == 6   \* inbound events in a sequential run
MaxClockEvents == 6 \* inbound events and clock steps in a run of one user
MaxUploadEvents == 2 \* uploads and clock steps in a run of concurrent uploads
MaxBlockedEvents == 4 \* inbound events in a run that starts with a blocked user
MaxSelectedEvents == 3 \* inbound events in a sequential run that starts with tariffs selected

Users == {"u1", "u2"}
Procs == {1, 2}

(***************************************************************************)
(* Configuration (bot.py:43-67)                                            *)
(***************************************************************************)
SUSPICIOUS_RECEIPT_LIMIT == 3
MAX_PDF_SIZE == 3145728
RECEIPT_MAX_AGE_MINUTES == 25
RECEIPT_WINDOW_MINUTES == 60

FREE == "2 minuty"
HOUR1 == "1 chas"
HOUR2 == "2 chasa"
Tariffs == {FREE, HOUR1, HOUR2}
NoTariff == "none"

tariff_prices == [t \in Tariffs |-> CASE t = FREE -> 0 [] t = HOUR1 -> 490 [] t = HOUR2 -> 790]
TARIFFS == [t \in Tariffs |-> CASE t = FREE -> 2 [] t = HOUR1 -> 60 [] t = HOUR2 -> 120]

\* RECIPIENT_NAME of the environment
recipient_name == <<"I", "v", "a", "n">>

(***************************************************************************)
(* Strings                                                                 *)
(***************************************************************************)
Digits == {"0", "1", "2", "3", "4", "5", "6", "7", "8", "9"}

DigitVal(c) ==
    CASE c = "0" -> 0 [] c = "1" -> 1 [] c = "2" -> 2 [] c = "3" -> 3 [] c = "4" -> 4
      [] c = "5" -> 5 [] c = "6" -> 6 [] c = "7" -> 7 [] c = "8" -> 8 [] c = "9" -> 9

DigitChar(n) ==
    CASE n = 0 -> "0" [] n = 1 -> "1" [] n = 2 -> "2" [] n = 3 -> "3" [] n = 4 -> "4"
      [] n = 5 -> "5" [] n = 6 -> "6" [] n = 7 -> "7" [] n = 8 -> "8" [] n = 9 -> "9"

\* str(n) for n >= 0
RECURSIVE IntToStr(_)
IntToStr(n) == IF n < 10 THEN <<DigitChar(n)>> ELSE IntToStr(n \div 10) \o <<DigitChar(n % 10)>>

\* s in t, for strings
IsSubstr(s, t) ==
    \E i \in 0..(Len(t) - Len(s)) : SubSeq(t, i + 1, i + Len(s)) = s

\* \s of the re module, on the characters the model uses
IsSpace(c) == c \in {" ", "\n", "\t"}

(***************************************************************************)
(* validate_receipt, rule 1: the renderings of the price (bot.py:191-195)  *)
(***************************************************************************)
AmountPatterns(price_str) ==
    { price_str \o <<",", "0", "0">>,
      price_str \o <<".", "0", "0">>,
      price_str \o <<" ", "K", "Z", "T">>,
      price_str \o <<"<tenge>">>,
      price_str \o <<" ", "<te>", "<ghe>">>,
      price_str \o <<" ", "<te>", "<ie>", "<en>", "<ghe>", "<ie>">> }

AmountRulePasses(text, tariff) ==
    LET price == tariff_prices[tariff] IN
    price > 0 => \E pattern \in AmountPatterns(IntToStr(price)) : IsSubstr(pattern, text)

(***************************************************************************)
(* validate_receipt, rule 2 (bot.py:199)                                   *)
(***************************************************************************)
RecipientRulePasses(text) == IsSubstr(recipient_name, text)

(***************************************************************************)
(* validate_receipt, rule 3: re.search of the two patterns, strptime of    *)
(* the match, and the age test (bot.py:203-219)                            *)
(***************************************************************************)
IsDigitAt(t, i) == t[i] \in Digits

\* (\d{2})\.(\d{2})\.(\d{4})\s(\d{2}):(\d{2}) matches t at position i
MatchesDMY(t, i) ==
    /\ i + 15 <= Len(t)
    /\ \A k \in {0, 1, 3, 4, 6, 7, 8, 9, 11, 12, 14, 15} : IsDigitAt(t, i + k)
    /\ t[i + 2] = "." /\ t[i + 5] = "."
    /\ IsSpace(t[i + 10])
    /\ t[i + 13] = ":"

\* (\d{4})-(\d{2})-(\d{2})T(\d{2}):(\d{2}) matches t at position i
MatchesISO(t, i) ==
    /\ i + 15 <= Len(t)
    /\ \A k \in {0, 1, 2, 3, 5, 6, 8, 9, 11, 12, 14, 15} : IsDigitAt(t, i + k)
    /\ t[i + 4] = "-" /\ t[i + 7] = "-"
    /\ t[i + 10] = "T"
    /\ t[i + 13] = ":"

\* re.search: the leftmost position where the pattern matches, 0 for no match
SearchDMY(t) ==
    IF \E i \in 1..Len(t) : MatchesDMY(t, i)
    THEN CHOOSE i \in 1..Len(t) : MatchesDMY(t, i) /\ \A j \in 1..(i - 1) : ~MatchesDMY(t, j)
    ELSE 0

SearchISO(t) ==
    IF \E i \in 1..Len(t) : MatchesISO(t, i)
    THEN CHOOSE i \in 1..Len(t) : MatchesISO(t, i) /\ \A j \in 1..(i - 1) : ~MatchesISO(t, j)
    ELSE 0

Num2(t, i) == 10 * DigitVal(t[i]) + DigitVal(t[i + 1])
Num4(t, i) == 100 * Num2(t, i) + Num2(t, i + 2)

IsLeap(y) == (y % 4 = 0 /\ y % 100 # 0) \/ y % 400 = 0

DaysInMonth(y, m) ==
    CASE m \in {1, 3, 5, 7, 8, 10, 12} -> 31
      [] m \in {4, 6, 9, 11} -> 30
      [] OTHER -> IF IsLeap(y) THEN 29 ELSE 28

\* the fields strptime and the datetime constructor accept
ValidDateTime(y, m, d, h, mi) ==
    /\ y >= 1
    /\ m >= 1 /\ m <= 12
    /\ d >= 1 /\ d <= DaysInMonth(y, m)
    /\ h <= 23
    /\ mi <= 59

\* days from 1970-01-01 to y-m-d in the proleptic Gregorian calendar
DaysFromCivil(y, m, d) ==
    LET yy == IF m <= 2 THEN y - 1 ELSE y
        era == yy \div 400
        yoe == yy - era * 400
        mp == IF m > 2 THEN m - 3 ELSE m + 9
        doy == (153 * mp + 2) \div 5 + d - 1
        doe == yoe * 365 + yoe \div 4 - yoe \div 100 + doy
    IN  era * 146097 + doe - 719468

Minutes(y, m, d, h, mi) == (DaysFromCivil(y, m, d) * 24 + h) * 60 + mi

NoTime == [ok |-> FALSE, at |-> 0]

\* datetime.strptime(match.group(), "%d.%m.%Y %H:%M"); ok = FALSE is ValueError
ParseDMY(t, i) ==
    LET d == Num2(t, i)  m == Num2(t, i + 3)  y == Num4(t, i + 6)
        h == Num2(t, i + 11)  mi == Num2(t, i + 14)
    IN  IF ValidDateTime(y, m, d, h, mi)
        THEN [ok |-> TRUE, at |-> Minutes(y, m, d, h, mi)]
        ELSE NoTime

\* datetime.strptime(match.group(), "%Y-%m-%dT%H:%M")
ParseISO(t, i) ==
    LET y == Num4(t, i)  m == Num2(t, i + 5)  d == Num2(t, i + 8)
        h == Num2(t, i + 11)  mi == Num2(t, i + 14)
    IN  IF ValidDateTime(y, m, d, h, mi)
        THEN [ok |-> TRUE, at |-> Minutes(y, m, d, h, mi)]
        ELSE NoTime

\* ReceiptTime with the two patterns tried in the other order
ReceiptTime_iso_first(text) ==
    LET i1 == SearchDMY(text)
        i2 == SearchISO(text)
        r1 == IF i1 # 0 THEN ParseDMY(text, i1) ELSE NoTime
        r2 == IF i2 # 0 THEN ParseISO(text, i2) ELSE NoTime
    IN  IF r2.ok THEN r2 ELSE r1

\* the loop of bot.py:204-213: the first pattern whose leftmost match parses
ReceiptTime(text) ==
    LET i1 == SearchDMY(text)
        i2 == SearchISO(text)
        r1 == IF i1 # 0 THEN ParseDMY(text, i1) ELSE NoTime
        r2 == IF i2 # 0 THEN ParseISO(text, i2) ELSE NoTime
    IN  IF r1.ok THEN r1 ELSE r2

\* TooOld with the age that equals the maximum rejected too
TooOld_inclusive(at, clock) == clock - at >= RECEIPT_MAX_AGE_MINUTES

\* (datetime.now() - receipt_time) > timedelta(minutes=RECEIPT_MAX_AGE_MINUTES)
TooOld(at, clock) == clock - at > RECEIPT_MAX_AGE_MINUTES

(***************************************************************************)
(* validate_receipt, rule 4: re.findall(r'\d+', filename) and              *)
(* max(..., key=len) (bot.py:223-228)                                      *)
(***************************************************************************)
\* the maximal digit runs of s from position i on, in scan order;
\* run is the run being read
RECURSIVE DigitRunsFrom(_, _, _)
DigitRunsFrom(s, i, run) ==
    IF i > Len(s)
    THEN IF run = <<>> THEN <<>> ELSE <<run>>
    ELSE IF s[i] \in Digits
         THEN DigitRunsFrom(s, i + 1, Append(run, s[i]))
         ELSE (IF run = <<>> THEN <<>> ELSE <<run>>) \o DigitRunsFrom(s, i + 1, <<>>)

DigitRuns(s) == DigitRunsFrom(s, 1, <<>>)

\* MaxByLenFrom keeping the last element of maximal length
RECURSIVE MaxByLenFrom_last(_, _, _)
MaxByLenFrom_last(runs, i, best) ==
    IF i > Len(runs) THEN best
    ELSE MaxByLenFrom_last(runs, i + 1, IF Len(runs[i]) >= Len(best) THEN runs[i] ELSE best)

\* max(runs, key=len): the first element of maximal length
RECURSIVE MaxByLenFrom(_, _, _)
MaxByLenFrom(runs, i, best) ==
    IF i > Len(runs) THEN best
    ELSE MaxByLenFrom(runs, i + 1, IF Len(runs[i]) > Len(best) THEN runs[i] ELSE best)

MaxByLen(runs) == MaxByLenFrom(runs, 2, runs[1])

TransactionId(filename) == MaxByLen(DigitRuns(filename))

(***************************************************************************)
(* The store: execute_db (bot.py:134-148).  A statement either runs or     *)
(* raises; a raised exception is logged and None is returned.              *)
(***************************************************************************)
\* the outcomes a store operation can have: TRUE runs, FALSE raises
DbOutcomes == {TRUE, FALSE}

\* TransactionUsed with the ledger lookup left out: no id is ever found used
TransactionUsed_no_lookup(transaction_id, ok) ==
    FALSE

\* SELECT 1 FROM receipt_transactions WHERE receipt_id = %s (bot.py:234)
TransactionUsed(transaction_id, ok) ==
    ok /\ \E r \in receipt_transactions : r.receipt_id = transaction_id

(***************************************************************************)
(* validate_receipt (bot.py:184-237): (is_valid, reason).  checked is the  *)
(* transaction id the fourth rule worked with (<<>> when it chose none).   *)
(***************************************************************************)
Verdict(v, r, id) == [valid |-> v, reason |-> r, checked |-> id]

\* LocalRules with the recipient rule evaluated before the amount rule
LocalRules_recipient_first(filename, text, tariff) ==
    LET rt == ReceiptTime(text)
        runs == DigitRuns(filename)
    IN  IF ~RecipientRulePasses(text) THEN "recipient-mismatch"
        ELSE IF ~AmountRulePasses(text, tariff) THEN "amount-mismatch"
        ELSE IF ~rt.ok THEN "time-unparsable"
        ELSE IF TooOld(rt.at, now) THEN "time-too-old"
        ELSE IF runs = <<>> THEN "transaction-id-missing-in-filename"
        ELSE IF ~IsSubstr(MaxByLen(runs), text) THEN "transaction-id-not-in-text"
        ELSE "pass"

\* the rules evaluated before the store is consulted: the reason of the
\* first one that fails, "pass" when none does
LocalRules(filename, text, tariff) ==
    LET rt == ReceiptTime(text)
        runs == DigitRuns(filename)
    IN  IF ~AmountRulePasses(text, tariff) THEN "amount-mismatch"
        ELSE IF ~RecipientRulePasses(text) THEN "recipient-mismatch"
        ELSE IF ~rt.ok THEN "time-unparsable"
        ELSE IF TooOld(rt.at, now) THEN "time-too-old"
        ELSE IF runs = <<>> THEN "transaction-id-missing-in-filename"
        ELSE IF ~IsSubstr(MaxByLen(runs), text) THEN "transaction-id-not-in-text"
        ELSE "pass"

validate_receipt(filename, text, tariff, ok) ==
    LET local == LocalRules(filename, text, tariff)
        runs == DigitRuns(filename)
        id == IF runs = <<>> THEN <<>> ELSE MaxByLen(runs)
    IN  IF local # "pass" THEN Verdict(FALSE, local, id)
        ELSE IF TransactionUsed(id, ok) THEN Verdict(FALSE, "transaction-already-used", id)
        ELSE Verdict(TRUE, "accepted", id)

(***************************************************************************)
(* Store statements.  ok = FALSE: the statement raised, nothing changed    *)
(* and execute_db returned None.  The tables are sets of rows; the unique  *)
(* keys are enforced by the statements' ON DUPLICATE KEY clauses.          *)
(***************************************************************************)
\* is_user_blocked failing closed: a check that raised reports the user blocked
is_user_blocked_fail_closed(user_id, ok) ==
    ~ok \/ \E r \in suspicious_receipts : r.user_id = user_id /\ r.is_blocked

\* is_user_blocked (bot.py:263-270)
is_user_blocked(user_id, ok) ==
    ok /\ \E r \in suspicious_receipts : r.user_id = user_id /\ r.is_blocked

\* is_new_user (bot.py:272-279): result is None
is_new_user(user_id, ok) ==
    ~(ok /\ \E r \in codes : r.user_id = user_id)

\* the column defaults of a row that INSERT creates without naming them
RECEIPT_COUNT_DEFAULT == 1

\* ReceiptKey with the user id made part of the key
ReceiptKey_with_user(r) == <<r.receipt_id, r.user_id>>

\* the unique key of table receipt_transactions.  The table is created
\* outside bot.py; its description reads "transaction id unique".
ReceiptKey(r) == <<r.receipt_id>>

\* log_transaction (bot.py:254-261): INSERT ... ON DUPLICATE KEY UPDATE used_at = NOW()
LogTransactionRows(rows, transaction_id, user_id, ok) ==
    LET row == [receipt_id |-> transaction_id, user_id |-> user_id, used_at |-> now]
    IN  IF ~ok THEN rows
        ELSE IF \E r \in rows : ReceiptKey(r) = ReceiptKey(row)
        THEN { IF ReceiptKey(r) = ReceiptKey(row) THEN [r EXCEPT !.used_at = now] ELSE r :
                 r \in rows }
        ELSE rows \cup {row}

\* receipt_count of the row of (user_id, file_name), 0 when there is no row
StoredCount(user_id, file_name) ==
    IF \E r \in suspicious_receipts : r.user_id = user_id /\ r.file_name = file_name
    THEN (CHOOSE r \in suspicious_receipts :
              r.user_id = user_id /\ r.file_name = file_name).receipt_count
    ELSE 0

\* LogSuspiciousRows with the counter keyed by the user alone
LogSuspiciousRows_by_user(rows, user_id, file_name, ok) ==
    IF ~ok THEN rows
    ELSE IF \E r \in rows : r.user_id = user_id
    THEN { IF r.user_id = user_id
           THEN [r EXCEPT !.receipt_count = r.receipt_count + 1] ELSE r : r \in rows }
    ELSE rows \cup {[user_id |-> user_id, file_name |-> file_name,
                     receipt_count |-> 1, is_blocked |-> FALSE]}

\* LogSuspiciousRows replacing the row of the pair, as REPLACE INTO does:
\* the columns the statement does not name fall back to their defaults
LogSuspiciousRows_replace(rows, user_id, file_name, ok) ==
    IF ~ok THEN rows
    ELSE {r \in rows : ~(r.user_id = user_id /\ r.file_name = file_name)} \cup
         {[user_id |-> user_id, file_name |-> file_name,
           receipt_count |-> StoredCount(user_id, file_name) + 1, is_blocked |-> FALSE]}

\* log_suspicious_receipt, first statement (bot.py:241-246):
\* INSERT ... ON DUPLICATE KEY UPDATE receipt_count = receipt_count + 1
LogSuspiciousRows(rows, user_id, file_name, ok) ==
    IF ~ok THEN rows
    ELSE IF \E r \in rows : r.user_id = user_id /\ r.file_name = file_name
    THEN { IF r.user_id = user_id /\ r.file_name = file_name
           THEN [r EXCEPT !.receipt_count = r.receipt_count + 1] ELSE r : r \in rows }
    ELSE rows \cup {[user_id |-> user_id, file_name |-> file_name,
                     receipt_count |-> RECEIPT_COUNT_DEFAULT, is_blocked |-> FALSE]}

\* log_suspicious_receipt, second statement and return (bot.py:247-252)
SuspiciousCount(user_id, file_name, ok) ==
    IF ok /\ \E r \in suspicious_receipts : r.user_id = user_id /\ r.file_name = file_name
    THEN (CHOOSE r \in suspicious_receipts :
              r.user_id = user_id /\ r.file_name = file_name).receipt_count
    ELSE 1

\* cmd_check_payment's lookup (bot.py:484-488):
\* ... WHERE user_id = %s AND used_at > DATE_SUB(NOW(), INTERVAL 1 HOUR)
has_valid_receipt(user_id, ok) ==
    ok /\ \E r \in receipt_transactions :
              r.user_id = user_id /\ r.used_at > now - RECEIPT_WINDOW_MINUTES

\* generate_code's INSERT (bot.py:656-661): expires_at = DATE_ADD(NOW(), INTERVAL d MINUTE).
\* issued_at is not a column: it records when the row was written.
CodeRow(code, user_id, session_id, tariff) ==
    [code |-> code, user_id |-> user_id, session_id |-> session_id,
     duration_minutes |-> TARIFFS[tariff], expires_at |-> now + TARIFFS[tariff],
     issued_at |-> now]

InsertCode(rows, code, user_id, session_id, tariff, ok) ==
    IF ok THEN rows \cup {CodeRow(code, user_id, session_id, tariff)} ELSE rows

\* SessionStatus with expires_at >= NOW()
SessionStatus_inclusive(row) == IF row.expires_at >= now THEN "active" ELSE "expired"

\* handle_my_sessions' query (bot.py:525-539) and the lines built from it
\* (bot.py:546-552): the code is put on a line only when status is active.
\* id names the row a line was built from; it is not displayed.
SessionStatus(row) == IF row.expires_at > now THEN "active" ELSE "expired"

SessionLines(user_id, ok) ==
    IF ~ok THEN {}
    ELSE { [id |-> r.code, status |-> SessionStatus(r),
            duration_minutes |-> r.duration_minutes, expires_at |-> r.expires_at,
            code |-> IF SessionStatus(r) = "active" THEN r.code ELSE 0]
           : r \in {c \in codes : c.user_id = user_id} }

\* get_tariff_keyboard (bot.py:327-338): the buttons of the keyboard
get_tariff_keyboard(user_id, ok) ==
    (IF is_new_user(user_id, ok) THEN {FREE} ELSE {}) \cup {HOUR1, HOUR2}

(***************************************************************************)
(* Handler tasks.  The dispatcher runs every inbound event in a task of    *)
(* its own; a task gives way to the others at each await.  pc is the       *)
(* statement the task will run next, "done" when it has returned.  The     *)
(* record of a finished task keeps what the handler did and answered.      *)
(***************************************************************************)
NoFile == [file_name |-> <<>>, text |-> <<>>, mime_type |-> "none", file_size |-> 0]

Idle ==
    [pc |-> "done", kind |-> "none", user |-> "none", file |-> NoFile,
     tariff |-> NoTariff,      \* the tariff the handler read from user_tariffs
     valid |-> FALSE, reason |-> "none", checked |-> <<>>,   \* validate_receipt's result
     committed |-> <<>>,       \* the id handed to log_transaction
     count |-> 0,              \* log_suspicious_receipt's result
     notify |-> "none",        \* the outcome of the task's webhook POST
     code |-> 0, session_id |-> 0,   \* generate_code's result
     reply |-> "none",         \* the answer sent to the user
     sessions |-> {},          \* the lines of the sessions answer
     at |-> 0,                 \* the clock when the event was dispatched
     had_row |-> FALSE,        \* the user had a row in codes when the event was dispatched
     had_code |-> FALSE,       \* the user had been issued a code when the event was dispatched
     ids_before |-> {},        \* the ids in receipt_transactions when the event was dispatched
     db_failed |-> FALSE,      \* a store operation of this task has raised
     store_ok |-> TRUE]        \* the task's latest store operation ran

Begin(kind, user_id) ==
    [Idle EXCEPT !.pc = kind, !.kind = kind, !.user = user_id, !.at = now,
                 !.had_row = \E r \in codes : r.user_id = user_id,
                 !.had_code = \E i \in issued : i.user_id = user_id,
                 !.ids_before = {r.receipt_id : r \in receipt_transactions}]

Ready(p) == proc[p].pc = "done"

Dispatched == nEvents' = nEvents + 1

\* cmd_start (bot.py:341-363).  user_stats and user_activity are written
\* and never read by the pipeline; they are not modelled.
cmd_start(p, user_id) ==
    /\ Ready(p)
    /\ \E ok \in DbOutcomes :
         /\ proc' = [proc EXCEPT ![p] =
                [Begin("start", user_id) EXCEPT
                    !.pc = "done",
                    !.reply = IF is_user_blocked(user_id, ok) THEN "blocked" ELSE "welcome",
                    !.db_failed = ~ok, !.store_ok = ok]]
    /\ Dispatched
    /\ UNCHANGED <<now, user_tariffs, codes, receipt_transactions, suspicious_receipts,
                   payments, notified, offered, nCodes, accepted, nAccepted, issued>>

\* show_tariffs and show_main_menu (bot.py:365-383): a keyboard is sent.
\* offered is a set: the user may open the menu any number of times, and
\* each keyboard stays in the chat until one of its buttons is pressed.
show_tariffs(p, user_id) ==
    /\ Ready(p)
    /\ \E ok \in DbOutcomes :
         /\ offered' = [offered EXCEPT ![user_id] = @ \cup get_tariff_keyboard(user_id, ok)]
         /\ proc' = [proc EXCEPT ![p] =
                [Begin("menu", user_id) EXCEPT
                    !.pc = "done",
                    !.reply = IF FREE \in get_tariff_keyboard(user_id, ok)
                              THEN "keyboard-with-free" ELSE "keyboard",
                    !.db_failed = ~ok, !.store_ok = ok]]
    /\ Dispatched
    /\ UNCHANGED <<now, user_tariffs, codes, receipt_transactions, suspicious_receipts,
                   payments, notified, nCodes, accepted, nAccepted, issued>>

\* generate_code (bot.py:650-663) run by task p for its user and tariff:
\* the tokens are drawn, the INSERT is executed and its outcome is ignored
generate_code(p, ok) ==
    /\ nCodes' = nCodes + 1
    /\ codes' = InsertCode(codes, nCodes + 1, proc[p].user, nCodes + 1, proc[p].tariff, ok)
    /\ issued' = issued \cup {[user_id |-> proc[p].user, tariff |-> proc[p].tariff,
                                code |-> nCodes + 1, session_id |-> nCodes + 1]}

\* process_tariff, to the first store statement (bot.py:385-392, 403-412)
process_tariff(p, user_id, tariff) ==
    /\ Ready(p)
    /\ tariff \in offered[user_id]
    /\ user_tariffs' = [user_tariffs EXCEPT ![user_id] = tariff]
    /\ proc' = [proc EXCEPT ![p] =
           [Begin("tariff", user_id) EXCEPT
               !.tariff = tariff,
               !.pc = IF tariff = FREE THEN "pt_issue" ELSE "done",
               !.reply = IF tariff = FREE THEN "none" ELSE "payment-details"]]
    /\ Dispatched
    /\ UNCHANGED <<now, codes, receipt_transactions, suspicious_receipts,
                   payments, notified, offered, nCodes, accepted, nAccepted, issued>>

\* process_tariff: generate_code and the answer with the code (bot.py:393-399)
pt_issue(p) ==
    /\ proc[p].pc = "pt_issue"
    /\ \E ok \in DbOutcomes :
         /\ generate_code(p, ok)
         /\ proc' = [proc EXCEPT ![p].pc = "pt_notify", ![p].code = nCodes + 1,
                                 ![p].session_id = nCodes + 1, ![p].reply = "free-code",
                                 ![p].db_failed = @ \/ ~ok, ![p].store_ok = ok]
    /\ UNCHANGED <<now, user_tariffs, receipt_transactions, suspicious_receipts,
                   payments, notified, offered, nEvents, accepted, nAccepted>>

\* notify_website (bot.py:150-164): one POST is attempted; whether it
\* succeeds, fails or times out, nothing is raised and nothing else changes
notify_website(user_id, session_id) ==
    notified' = Append(notified, [user_id |-> user_id, session_id |-> session_id])

\* what the POST can come to: answered, refused or broken, no answer within 2 s
NotifyOutcomes == {"sent", "failed", "timeout"}

\* NotifyReturn without the except clause: a failed POST raises into the handler
NotifyReturn_raises(outcome) == IF outcome = "sent" THEN "done" ELSE "raised"

\* where the handler stands after notify_website: the except clause
\* (bot.py:163-164) logs every exception, so the call returns and the
\* handler, whose last statement it is, returns too
NotifyReturn(outcome) == "done"

\* process_tariff: the notification (bot.py:400-401)
pt_notify(p) ==
    /\ proc[p].pc = "pt_notify"
    /\ notify_website(proc[p].user, proc[p].session_id)
    /\ \E outcome \in NotifyOutcomes :
         proc' = [proc EXCEPT ![p].pc = NotifyReturn(outcome), ![p].notify = outcome]
    /\ UNCHANGED <<now, user_tariffs, codes, receipt_transactions, suspicious_receipts,
                   payments, offered, nCodes, nEvents, accepted, nAccepted, issued>>

\* the transaction id the handler computes for log_transaction (bot.py:446)
HandlerTransactionId(file_name) == MaxByLen(DigitRuns(file_name))

\* handle_payment_proof, to the download of the file (bot.py:414-441):
\* the block check, then the tests of the selection, the type and the size
handle_payment_proof(p, user_id, file) ==
    /\ Ready(p)
    /\ \E ok \in DbOutcomes :
         /\ LET refusal ==
                    IF is_user_blocked(user_id, ok) THEN "blocked"
                    ELSE IF user_tariffs[user_id] = NoTariff THEN "select-tariff-first"
                    ELSE IF file.mime_type # "application/pdf" THEN "not-pdf"
                    ELSE IF file.file_size > MAX_PDF_SIZE THEN "too-big"
                    ELSE "none"
            IN  proc' = [proc EXCEPT ![p] =
                    [Begin("upload", user_id) EXCEPT
                        !.file = file,
                        !.pc = IF refusal = "none" THEN "up_validate" ELSE "done",
                        !.reply = refusal,
                        !.db_failed = ~ok, !.store_ok = ok]]
    /\ Dispatched
    /\ UNCHANGED <<now, user_tariffs, codes, receipt_transactions, suspicious_receipts,
                   payments, notified, offered, nCodes, accepted, nAccepted, issued>>

\* handle_payment_proof: validate_receipt (bot.py:443).  user_tariffs[user_id]
\* raises KeyError when the selection was removed meanwhile; the handler's
\* except clause answers with the processing error (bot.py:463-465).
up_validate(p) ==
    /\ proc[p].pc = "up_validate"
    /\ LET user_id == proc[p].user
           file == proc[p].file
           tariff == user_tariffs[user_id]
       IN  IF tariff = NoTariff
           THEN /\ proc' = [proc EXCEPT ![p].pc = "done", ![p].reply = "processing-error"]
                /\ UNCHANGED <<accepted, nAccepted>>
           ELSE \E ok \in IF LocalRules(file.file_name, file.text, tariff) = "pass"
                          THEN DbOutcomes ELSE {TRUE} :
                  LET v == validate_receipt(file.file_name, file.text, tariff, ok)
                  IN  /\ proc' = [proc EXCEPT
                             ![p].pc = IF v.valid THEN "up_commit" ELSE "up_suspicious",
                             ![p].tariff = tariff,
                             ![p].valid = v.valid, ![p].reason = v.reason,
                             ![p].checked = v.checked,
                             ![p].db_failed = @ \/ ~ok, ![p].store_ok = ok]
                      /\ accepted' = IF v.valid THEN accepted \cup {<<user_id, tariff>>}
                                     ELSE accepted
                      /\ nAccepted' = IF v.valid THEN [nAccepted EXCEPT ![user_id] = @ + 1]
                                      ELSE nAccepted
                 /\ UNCHANGED <<now, user_tariffs, codes, receipt_transactions, suspicious_receipts,
                   payments, notified, offered, nCodes, nEvents, issued>>

\* up_commit treating an id that has a record by now as already used
up_commit_conflict(p) ==
    /\ proc[p].pc = "up_commit"
    /\ \E ok \in DbOutcomes :
         LET id == HandlerTransactionId(proc[p].file.file_name)
             taken == ok /\ \E r \in receipt_transactions : r.receipt_id = id
         IN  /\ receipt_transactions' =
                    IF taken THEN receipt_transactions
                    ELSE LogTransactionRows(receipt_transactions, id, proc[p].user, ok)
             /\ proc' = [proc EXCEPT ![p].pc = "done", ![p].committed = id,
                                     ![p].reply = IF taken THEN "transaction-already-used"
                                                  ELSE "accepted",
                                     ![p].db_failed = @ \/ ~ok, ![p].store_ok = ok]
    /\ UNCHANGED <<now, user_tariffs, codes, suspicious_receipts,
                   payments, notified, offered, nCodes, nEvents, accepted, nAccepted, issued>>

\* handle_payment_proof: the accepted receipt is committed (bot.py:444-448)
up_commit(p) ==
    /\ proc[p].pc = "up_commit"
    /\ \E ok \in DbOutcomes :
         LET id == HandlerTransactionId(proc[p].file.file_name)
         IN  /\ receipt_transactions' =
                    LogTransactionRows(receipt_transactions, id, proc[p].user, ok)
             /\ proc' = [proc EXCEPT ![p].pc = "done", ![p].committed = id,
                                     ![p].reply = "accepted", ![p].db_failed = @ \/ ~ok, ![p].store_ok = ok]
        /\ UNCHANGED <<now, user_tariffs, codes, suspicious_receipts,
                   payments, notified, offered, nCodes, nEvents, accepted, nAccepted, issued>>

\* handle_payment_proof: log_suspicious_receipt's INSERT (bot.py:450, 241-246)
up_suspicious(p) ==
    /\ proc[p].pc = "up_suspicious"
    /\ \E ok \in DbOutcomes :
         /\ suspicious_receipts' =
                LogSuspiciousRows(suspicious_receipts, proc[p].user,
                                  proc[p].file.file_name, ok)
         /\ proc' = [proc EXCEPT ![p].pc = "up_count", ![p].db_failed = @ \/ ~ok, ![p].store_ok = ok]
    /\ UNCHANGED <<now, user_tariffs, codes, receipt_transactions,
                   payments, notified, offered, nCodes, nEvents, accepted, nAccepted, issued>>

\* handle_payment_proof: log_suspicious_receipt's SELECT and the answer
\* (bot.py:247-252, 451-459).  Building the error text reads
\* user_tariffs[user_id] again (bot.py:456).
up_count(p) ==
    /\ proc[p].pc = "up_count"
    /\ \E ok \in DbOutcomes :
         LET count == SuspiciousCount(proc[p].user, proc[p].file.file_name, ok)
         IN  /\ proc' = [proc EXCEPT
                    ![p].pc = "done", ![p].count = count,
                    ![p].reply = IF count >= SUSPICIOUS_RECEIPT_LIMIT
                                 THEN "blocked-for-suspicious-receipts"
                                 ELSE IF user_tariffs[proc[p].user] = NoTariff
                                 THEN "processing-error"
                                 ELSE "rejected",
                    ![p].db_failed = @ \/ ~ok, ![p].store_ok = ok]
        /\ UNCHANGED <<now, user_tariffs, codes, receipt_transactions, suspicious_receipts,
                   payments, notified, offered, nCodes, nEvents, accepted, nAccepted, issued>>

\* cmd_check_payment, to the first store statement (bot.py:467-478)
cmd_check_payment(p, user_id) ==
    /\ Ready(p)
    /\ LET tariff == user_tariffs[user_id]
       IN  proc' = [proc EXCEPT ![p] =
               [Begin("checkpayment", user_id) EXCEPT
                   !.tariff = tariff,
                   !.pc = IF tariff = NoTariff THEN "done"
                          ELSE IF tariff = FREE THEN "cp_free" ELSE "cp_lookup",
                   !.reply = IF tariff = NoTariff THEN "select-tariff-first" ELSE "none"]]
    /\ Dispatched
    /\ UNCHANGED <<now, user_tariffs, codes, receipt_transactions, suspicious_receipts,
                   payments, notified, offered, nCodes, accepted, nAccepted, issued>>

\* cp_free removing the selection as the paid branch does
cp_free_pops(p) ==
    /\ proc[p].pc = "cp_free"
    /\ \E ok \in DbOutcomes :
         /\ generate_code(p, ok)
         /\ proc' = [proc EXCEPT ![p].pc = "done", ![p].code = nCodes + 1,
                                 ![p].session_id = nCodes + 1, ![p].reply = "code",
                                 ![p].db_failed = @ \/ ~ok, ![p].store_ok = ok]
    /\ user_tariffs' = [user_tariffs EXCEPT ![proc[p].user] = NoTariff]
    /\ UNCHANGED <<now, receipt_transactions, suspicious_receipts,
                   payments, notified, offered, nEvents, accepted, nAccepted>>

\* cmd_check_payment, free tariff: generate_code and send_code_message
\* (bot.py:478-481, 511-519)
cp_free(p) ==
    /\ proc[p].pc = "cp_free"
    /\ \E ok \in DbOutcomes :
         /\ generate_code(p, ok)
         /\ proc' = [proc EXCEPT ![p].pc = "done", ![p].code = nCodes + 1,
                                 ![p].session_id = nCodes + 1, ![p].reply = "code",
                                 ![p].db_failed = @ \/ ~ok, ![p].store_ok = ok]
    /\ UNCHANGED <<now, user_tariffs, receipt_transactions, suspicious_receipts,
                   payments, notified, offered, nEvents, accepted, nAccepted>>

\* cmd_check_payment, paid tariff: the receipt lookup (bot.py:484-492)
cp_lookup(p) ==
    /\ proc[p].pc = "cp_lookup"
    /\ \E ok \in DbOutcomes :
         /\ proc' = [proc EXCEPT
                ![p].pc = IF has_valid_receipt(proc[p].user, ok) THEN "cp_issue" ELSE "done",
                ![p].reply = IF has_valid_receipt(proc[p].user, ok) THEN "none"
                             ELSE "receipt-not-found",
                ![p].db_failed = @ \/ ~ok, ![p].store_ok = ok]
    /\ UNCHANGED <<now, user_tariffs, codes, receipt_transactions, suspicious_receipts,
                   payments, notified, offered, nCodes, nEvents, accepted, nAccepted, issued>>

\* cmd_check_payment, paid tariff: generate_code (bot.py:494)
cp_issue(p) ==
    /\ proc[p].pc = "cp_issue"
    /\ \E ok \in DbOutcomes :
         /\ generate_code(p, ok)
         /\ proc' = [proc EXCEPT ![p].pc = "cp_pay", ![p].code = nCodes + 1,
                                 ![p].session_id = nCodes + 1,
                                 ![p].db_failed = @ \/ ~ok, ![p].store_ok = ok]
    /\ UNCHANGED <<now, user_tariffs, receipt_transactions, suspicious_receipts,
                   payments, notified, offered, nEvents, accepted, nAccepted>>

\* log_payment (bot.py:307-313)
log_payment(user_id, amount, tariff, ok) ==
    payments' = IF ok THEN Append(payments, [user_id |-> user_id, amount |-> amount,
                                              tariff |-> tariff])
                ELSE payments

\* cmd_check_payment, paid tariff: the payment log (bot.py:495-498)
cp_pay(p) ==
    /\ proc[p].pc = "cp_pay"
    /\ LET amount == tariff_prices[proc[p].tariff]
       IN  IF amount > 0
           THEN \E ok \in DbOutcomes :
                  /\ log_payment(proc[p].user, amount, proc[p].tariff, ok)
                  /\ proc' = [proc EXCEPT ![p].pc = "cp_answer", ![p].db_failed = @ \/ ~ok, ![p].store_ok = ok]
                    ELSE /\ proc' = [proc EXCEPT ![p].pc = "cp_answer"]
                /\ UNCHANGED payments
    /\ UNCHANGED <<now, user_tariffs, codes, receipt_transactions, suspicious_receipts,
                   notified, offered, nCodes, nEvents, accepted, nAccepted, issued>>

\* cmd_check_payment, paid tariff: the answer with the code, then the
\* selection is removed (bot.py:500-508)
cp_answer(p) ==
    /\ proc[p].pc = "cp_answer"
    /\ user_tariffs' = [user_tariffs EXCEPT ![proc[p].user] = NoTariff]
    /\ proc' = [proc EXCEPT ![p].pc = "cp_notify", ![p].reply = "code"]
    /\ UNCHANGED <<now, codes, receipt_transactions, suspicious_receipts,
                   payments, notified, offered, nCodes, nEvents, accepted, nAccepted, issued>>

\* cmd_check_payment, paid tariff: the notification (bot.py:509)
cp_notify(p) ==
    /\ proc[p].pc = "cp_notify"
    /\ notify_website(proc[p].user, proc[p].session_id)
    /\ \E outcome \in NotifyOutcomes :
         proc' = [proc EXCEPT ![p].pc = NotifyReturn(outcome), ![p].notify = outcome]
    /\ UNCHANGED <<now, user_tariffs, codes, receipt_transactions, suspicious_receipts,
                   payments, offered, nCodes, nEvents, accepted, nAccepted, issued>>

\* handle_my_sessions (bot.py:521-554)
handle_my_sessions(p, user_id) ==
    /\ Ready(p)
    /\ \E ok \in DbOutcomes :
         /\ proc' = [proc EXCEPT ![p] =
                [Begin("sessions", user_id) EXCEPT
                    !.pc = "done",
                    !.sessions = SessionLines(user_id, ok),
                    !.reply = IF SessionLines(user_id, ok) = {} THEN "no-sessions"
                              ELSE "sessions",
                    !.db_failed = ~ok, !.store_ok = ok]]
    /\ Dispatched
    /\ UNCHANGED <<now, user_tariffs, codes, receipt_transactions, suspicious_receipts,
                   payments, notified, offered, nCodes, accepted, nAccepted, issued>>

\* the clock advances
Tick(d) ==
    /\ now' = now + d
    /\ Dispatched
    /\ UNCHANGED <<user_tariffs, codes, receipt_transactions, suspicious_receipts,
                   payments, notified, offered, proc, nCodes, accepted, nAccepted, issued>>

(***************************************************************************)
(* The receipts of the model: file names and extracted texts               *)
(***************************************************************************)
Doc(file_name, text) ==
    [file_name |-> file_name, text |-> text,
     mime_type |-> "application/pdf", file_size |-> 1024]

\* the clock at the start of a run: 2024-01-01 00:20
NowStart == Minutes(2024, 1, 1, 0, 20)

FN_two == <<"r", "e", "c", "e", "i", "p", "t", "_", "1", "2", "_", "9", "8", "7", "6", "5", ".", "p", "d", "f">>
FN_tie == <<"r", "_", "1", "2", "3", "_", "4", "5", "6", ".", "p", "d", "f">>
FN_none == <<"r", "e", "c", "e", "i", "p", "t", ".", "p", "d", "f">>
FN_other == <<"c", "h", "e", "k", "5", "5", "5", ".", "p", "d", "f">>

ID_98765 == <<"9", "8", "7", "6", "5">>
ID_123 == <<"1", "2", "3">>
ID_456 == <<"4", "5", "6">>

A_490 == <<"4", "9", "0", ",", "0", "0">>
A_1490 == <<"1", "4", "9", "0", ".", "0", "0">>
A_790w == <<"7", "9", "0", " ", "<te>", "<ie>", "<en>", "<ghe>", "<ie>">>

R_petr == <<"P", "e", "t", "r">>

T_dmy == <<"0", "1", ".", "0", "1", ".", "2", "0", "2", "4", " ", "0", "0", ":", "1", "0">>
T_iso == <<"2", "0", "2", "4", "-", "0", "1", "-", "0", "1", "T", "0", "0", ":", "1", "0">>
T_dmy_old == <<"3", "1", ".", "1", "2", ".", "2", "0", "2", "3", " ", "2", "3", ":", "5", "0">>
T_dmy_bad == <<"3", "1", ".", "0", "2", ".", "2", "0", "2", "4", " ", "0", "0", ":", "1", "0">>
T_dmy_future == <<"0", "1", ".", "0", "1", ".", "2", "0", "2", "4", " ", "0", "1", ":", "2", "0">>

Sp == <<" ">>

\* a text with the four parts a rule looks for, in the order of a receipt
Text(amount, recipient, time, id) == amount \o Sp \o recipient \o Sp \o time \o Sp \o id

\* the receipts users upload in the runs of the whole bot
F_ok == Doc(FN_two, Text(A_490, recipient_name, T_dmy, ID_98765))
F_bad == Doc(FN_tie, Text(A_490, R_petr, T_dmy, ID_123))
Files == {F_ok, F_bad}

\* the receipts validate_receipt is checked on
FileNames == {FN_two, FN_tie, FN_none, FN_other}
Amounts == {<<>>, A_490, A_790w, A_1490}
Recipients == {recipient_name, R_petr}
Times == {<<>>, T_dmy, T_iso, T_dmy_old, T_dmy_future, T_dmy_bad,
          T_dmy_bad \o Sp \o T_iso, T_iso \o Sp \o T_dmy_old}
Ids == {<<>>, ID_98765, ID_123, ID_456}
AllFiles ==
    { Doc(fn, Text(a, r, t, id)) :
        fn \in FileNames, a \in Amounts, r \in Recipients, t \in Times, id \in Ids }

\* the clocks validate_receipt is checked at: 00:20, 00:35 and 00:36
Clocks == {NowStart, NowStart + 15, NowStart + 16}

\* the steps of the clock
TickSteps == {1, 60}

(***************************************************************************)
(* The state when the process starts                                       *)
(***************************************************************************)
Init ==
    /\ now = NowStart
    /\ user_tariffs = [u \in Users |-> NoTariff]
    /\ codes = {}
    /\ receipt_transactions = {}
    /\ suspicious_receipts = {}
    /\ payments = <<>>
    /\ notified = <<>>
    /\ offered = [u \in Users |-> {}]
    /\ proc = [p \in Procs |-> Idle]
    /\ nCodes = 0
    /\ nEvents = 0
    /\ accepted = {}
    /\ nAccepted = [u \in Users |-> 0]
    /\ issued = {}

\* the task that takes the next event: the tasks are interchangeable
FreeProc == CHOOSE p \in Procs : Ready(p) /\ \A q \in Procs : Ready(q) => p <= q

SomeReady == \E p \in Procs : Ready(p)

AllDone == \A p \in Procs : Ready(p)

\* the statements of the handlers after their first
Step(p) ==
    \/ pt_issue(p)
    \/ pt_notify(p)
    \/ up_validate(p)
    \/ up_commit(p)
    \/ up_suspicious(p)
    \/ up_count(p)
    \/ cp_free(p)
    \/ cp_lookup(p)
    \/ cp_issue(p)
    \/ cp_pay(p)
    \/ cp_answer(p)
    \/ cp_notify(p)

(***************************************************************************)
(* The bot: events arrive while earlier handlers are still running         *)
(***************************************************************************)
Next ==
    \/ /\ nEvents < MaxEvents
       /\ SomeReady
       /\ \E user_id \in Users :
            \/ cmd_start(FreeProc, user_id)
            \/ show_tariffs(FreeProc, user_id)
            \/ \E tariff \in Tariffs : process_tariff(FreeProc, user_id, tariff)
            \/ \E file \in Files : handle_payment_proof(FreeProc, user_id, file)
            \/ cmd_check_payment(FreeProc, user_id)
            \/ handle_my_sessions(FreeProc, user_id)
    \/ nEvents < MaxEvents /\ \E d \in TickSteps : Tick(d)
    \/ \E p \in Procs : Step(p)

Spec == Init /\ [][Next]_vars

(***************************************************************************)
(* The bot with one event handled at a time: an event is dispatched only   *)
(* when the handler of the previous one has returned.  The clock stands.   *)
(***************************************************************************)
NextSeq ==
    \/ /\ nEvents < MaxSeqEvents
       /\ AllDone
       /\ \E user_id \in Users :
            \/ show_tariffs(1, user_id)
            \/ \E tariff \in Tariffs : process_tariff(1, user_id, tariff)
            \/ \E file \in Files : handle_payment_proof(1, user_id, file)
            \/ cmd_check_payment(1, user_id)
            \/ handle_my_sessions(1, user_id)
    \/ Step(1)

SpecSeq == Init /\ [][NextSeq]_vars

(***************************************************************************)
(* validate_receipt on its inputs: one upload of any receipt, under any    *)
(* selected tariff, at any of the clocks, with the receipt's id new or     *)
(* already committed by another user                                       *)
(***************************************************************************)
InitValidate ==
    /\ now \in Clocks
    /\ \E tariff \in Tariffs : user_tariffs = [u \in Users |-> IF u = "u1" THEN tariff ELSE NoTariff]
    /\ codes = {}
    /\ receipt_transactions \in
           { {}, {[receipt_id |-> ID_98765, user_id |-> "u2", used_at |-> NowStart - 5]} }
    /\ suspicious_receipts = {}
    /\ payments = <<>>
    /\ notified = <<>>
    /\ offered = [u \in Users |-> {HOUR1, HOUR2}]
    /\ proc = [p \in Procs |-> Idle]
    /\ nCodes = 0
    /\ nEvents = 0
    /\ accepted = {}
    /\ nAccepted = [u \in Users |-> 0]
    /\ issued = {}

NextValidate ==
    \/ nEvents = 0 /\ \E file \in AllFiles : handle_payment_proof(1, "u1", file)
    \/ up_validate(1)
    \/ up_commit(1)
    \/ up_suspicious(1)
    \/ up_count(1)

SpecValidate == InitValidate /\ [][NextValidate]_vars

(***************************************************************************)
(* One user, one event at a time, and the clock: codes run out             *)
(***************************************************************************)
NextClock ==
    \/ /\ nEvents < MaxClockEvents
       /\ AllDone
       /\ \/ show_tariffs(1, "u1")
          \/ \E tariff \in Tariffs : process_tariff(1, "u1", tariff)
          \/ \E file \in Files : handle_payment_proof(1, "u1", file)
          \/ cmd_check_payment(1, "u1")
          \/ handle_my_sessions(1, "u1")
    \/ nEvents < MaxClockEvents /\ AllDone /\ \E d \in TickSteps : Tick(d)
    \/ Step(1)

SpecClock == Init /\ [][NextClock]_vars

(***************************************************************************)
(* Concurrent uploads.  Both users have opened the menu and selected the   *)
(* one-hour tariff; they upload receipts, and a handler may start while    *)
(* another is between two of its statements.                               *)
(***************************************************************************)
InitUploads ==
    /\ now = NowStart
    /\ user_tariffs = [u \in Users |-> HOUR1]
    /\ codes = {}
    /\ receipt_transactions = {}
    /\ suspicious_receipts = {}
    /\ payments = <<>>
    /\ notified = <<>>
    /\ offered = [u \in Users |-> {FREE, HOUR1, HOUR2}]
    /\ proc = [p \in Procs |-> Idle]
    /\ nCodes = 0
    /\ nEvents = 0
    /\ accepted = {}
    /\ nAccepted = [u \in Users |-> 0]
    /\ issued = {}

NextUploads ==
    \/ /\ nEvents < MaxUploadEvents
       /\ SomeReady
       /\ \E user_id \in Users, file \in Files :
              handle_payment_proof(FreeProc, user_id, file)
    \/ nEvents < MaxUploadEvents /\ Tick(1)
    \/ \E p \in Procs :
            \/ up_validate(p)
            \/ up_commit(p)
            \/ up_suspicious(p)
            \/ up_count(p)

SpecUploads == InitUploads /\ [][NextUploads]_vars

(***************************************************************************)
(* A blocked user.  No statement of bot.py sets is_blocked; the flag is    *)
(* set in the table from outside.  The run starts with u1 blocked on the   *)
(* third failure of r_123_456.pdf and handles one event at a time, of      *)
(* either user: the other user's failures are counted beside that row.     *)
(***************************************************************************)
InitBlocked ==
    /\ now = NowStart
    /\ user_tariffs = [u \in Users |-> NoTariff]
    /\ codes = {}
    /\ receipt_transactions = {}
    /\ suspicious_receipts =
           {[user_id |-> "u1", file_name |-> FN_tie,
             receipt_count |-> SUSPICIOUS_RECEIPT_LIMIT, is_blocked |-> TRUE]}
    /\ payments = <<>>
    /\ notified = <<>>
    /\ offered = [u \in Users |-> {}]
    /\ proc = [p \in Procs |-> Idle]
    /\ nCodes = 0
    /\ nEvents = 0
    /\ accepted = {}
    /\ nAccepted = [u \in Users |-> 0]
    /\ issued = {}

NextBlocked ==
    \/ /\ nEvents < MaxBlockedEvents
       /\ AllDone
       /\ \E user_id \in Users :
            \/ cmd_start(1, user_id)
            \/ show_tariffs(1, user_id)
            \/ \E tariff \in Tariffs : process_tariff(1, user_id, tariff)
            \/ \E file \in Files : handle_payment_proof(1, user_id, file)
            \/ cmd_check_payment(1, user_id)
    \/ Step(1)

SpecBlocked == InitBlocked /\ [][NextBlocked]_vars

(***************************************************************************)
(* Both users have opened the menu and selected the one-hour tariff, as in *)
(* InitUploads; from there one event is handled at a time.                 *)
(***************************************************************************)
NextSelected ==
    \/ /\ nEvents < MaxSelectedEvents
       /\ AllDone
       /\ \E user_id \in Users :
            \/ show_tariffs(1, user_id)
            \/ \E tariff \in Tariffs : process_tariff(1, user_id, tariff)
            \/ \E file \in Files : handle_payment_proof(1, user_id, file)
            \/ cmd_check_payment(1, user_id)
    \/ Step(1)

SpecSelected == InitUploads /\ [][NextSelected]_vars

(***************************************************************************)
(* Properties                                                              *)
(***************************************************************************)
\* task p has come back from validate_receipt and has not yet acted on the verdict
Validated(p) == proc[p].kind = "upload" /\ proc[p].pc \in {"up_commit", "up_suspicious"}

\* the four rules, each stated on its own, for the receipt of task p
AmountFails(p) ==
    /\ tariff_prices[proc[p].tariff] > 0
    /\ \A pattern \in AmountPatterns(IntToStr(tariff_prices[proc[p].tariff])) :
           ~IsSubstr(pattern, proc[p].file.text)

RecipientFails(p) == ~IsSubstr(recipient_name, proc[p].file.text)

TimeFails(p) ==
    LET rt == ReceiptTime(proc[p].file.text)
    IN  ~rt.ok \/ now - rt.at > RECEIPT_MAX_AGE_MINUTES

\* a..b is a maximal run of decimal digits of s
IsRun(s, a, b) ==
    /\ a <= b
    /\ \A k \in a..b : s[k] \in Digits
    /\ a = 1 \/ s[a - 1] \notin Digits
    /\ b = Len(s) \/ s[b + 1] \notin Digits

HasDigit(s) == \E k \in 1..Len(s) : s[k] \in Digits

\* id is the longest maximal run of digits of s, the first of the longest
IsLongestFirstRun(s, id) ==
    \E a \in 1..Len(s), b \in 1..Len(s) :
        /\ IsRun(s, a, b)
        /\ id = SubSeq(s, a, b)
        /\ \A a2 \in 1..Len(s), b2 \in 1..Len(s) :
               IsRun(s, a2, b2) => \/ b2 - a2 < b - a
                                   \/ b2 - a2 = b - a /\ a2 >= a

TransactionIdFails(p) ==
    LET file == proc[p].file
    IN  \/ ~HasDigit(file.file_name)
        \/ ~IsSubstr(proc[p].checked, file.text)
        \/ /\ proc[p].store_ok
           /\ \E r \in receipt_transactions : r.receipt_id = proc[p].checked

\* C1: validate_receipt evaluates amount, recipient, timestamp, transaction
\* id in this order and returns the reason of the first rule that fails;
\* it accepts only if all four pass.  So a receipt of a priced tariff with
\* the amount but not the recipient gets recipient-mismatch, and one that
\* fails both rules gets amount-mismatch.
Thm_C1 ==
    \A p \in Procs : Validated(p) =>
        /\ AmountFails(p) => proc[p].reason = "amount-mismatch"
        /\ ~AmountFails(p) /\ RecipientFails(p) => proc[p].reason = "recipient-mismatch"
        /\ ~AmountFails(p) /\ ~RecipientFails(p) /\ TimeFails(p) =>
               proc[p].reason \in {"time-unparsable", "time-too-old"}
        /\ ~AmountFails(p) /\ ~RecipientFails(p) /\ ~TimeFails(p) /\ TransactionIdFails(p) =>
               proc[p].reason \in {"transaction-id-missing-in-filename",
                                   "transaction-id-not-in-text", "transaction-already-used"}
        /\ proc[p].valid <=>
               ~(AmountFails(p) \/ RecipientFails(p) \/ TimeFails(p) \/ TransactionIdFails(p))
        /\ proc[p].valid <=> proc[p].reason = "accepted"

\* a receipt of a priced tariff that fails the amount rule and the recipient
\* rule has been rejected for its amount
Wit_C1 ==
    \E p \in Procs :
        /\ Validated(p)
        /\ tariff_prices[proc[p].tariff] > 0
        /\ AmountFails(p) /\ RecipientFails(p)
        /\ proc[p].reason = "amount-mismatch"

\* C10: the transaction id is the longest maximal run of decimal digits of
\* the file name, the first of them when several are longest; a file name
\* without a digit fails with transaction-id-missing-in-filename when the
\* fourth rule is reached; the id the handler commits is the id checked.
Thm_C10 ==
    \A p \in Procs : proc[p].kind = "upload" /\ proc[p].reason # "none" =>
        LET name == proc[p].file.file_name
        IN  /\ HasDigit(name) => IsLongestFirstRun(name, proc[p].checked)
            /\ ~HasDigit(name) =>
                   proc[p].reason \in {"amount-mismatch", "recipient-mismatch",
                                       "time-unparsable", "time-too-old",
                                       "transaction-id-missing-in-filename"}
            /\ ~HasDigit(name) /\ proc[p].pc = "up_suspicious"
                   /\ ~AmountFails(p) /\ ~RecipientFails(p) /\ ~TimeFails(p) =>
                   proc[p].reason = "transaction-id-missing-in-filename"
            /\ proc[p].reply = "accepted" =>
                   /\ proc[p].committed = proc[p].checked
                   /\ proc[p].store_ok =>
                          \E r \in receipt_transactions : r.receipt_id = proc[p].checked

\* the receipt r_123_456.pdf, whose two runs are equally long, has been
\* accepted and committed under its first run
Wit_C10 ==
    \E p \in Procs :
        /\ proc[p].file.file_name = FN_tie
        /\ proc[p].reply = "accepted"
        /\ proc[p].checked = ID_123
        /\ \E r \in receipt_transactions : r.receipt_id = ID_123

\* the receipt of task p passes every rule that does not consult the store
OtherwiseValid(p) ==
    /\ ~AmountFails(p) /\ ~RecipientFails(p) /\ ~TimeFails(p)
    /\ HasDigit(proc[p].file.file_name)
    /\ IsSubstr(proc[p].checked, proc[p].file.text)

\* C2: of two otherwise valid uploads that carry the same transaction id,
\* the second starting after the first has completed and the store
\* operations succeeding, the first is accepted and the second is rejected
\* with transaction-already-used, whoever the two users are.
Thm_C2 ==
    \A p \in Procs : Validated(p) /\ OtherwiseValid(p) =>
        /\ proc[p].checked \notin proc[p].ids_before => proc[p].valid
        /\ proc[p].checked \in proc[p].ids_before /\ proc[p].store_ok =>
               proc[p].reason = "transaction-already-used"

\* an upload is rejected as already used: its id was committed by the
\* completed upload of another user
Wit_C2 ==
    \E p \in Procs :
        /\ Validated(p) /\ OtherwiseValid(p)
        /\ proc[p].reason = "transaction-already-used"
        /\ \E r \in receipt_transactions :
               r.receipt_id = proc[p].checked /\ r.user_id # proc[p].user

\* C4 as claimed: when the third invalid submission of a (user, filename)
\* pair is recorded the user's block flag is set in the store, and a later
\* upload of that user is refused by the block check before validation.
Cex_C4 ==
    \A p \in Procs :
        /\ proc[p].kind = "upload" /\ proc[p].pc = "done"
               /\ proc[p].count >= SUSPICIOUS_RECEIPT_LIMIT =>
               \E r \in suspicious_receipts : r.user_id = proc[p].user /\ r.is_blocked
        /\ proc[p].pc = "up_validate" =>
               ~\E r \in suspicious_receipts :
                    r.user_id = proc[p].user /\ r.receipt_count >= SUSPICIOUS_RECEIPT_LIMIT

\* C5 as claimed: with one event handled at a time, a zero-price code is
\* issued only to a user who had no row in codes when the request arrived.
Cex_C5 ==
    \A p \in Procs :
        proc[p].tariff = FREE /\ proc[p].code # 0 => ~proc[p].had_row

\* C6 as claimed: a code of a paid tariff is issued to a user only if a
\* receipt of that user was accepted by validation against that tariff.
Cex_C6 ==
    \A i \in issued :
        tariff_prices[i.tariff] > 0 => <<i.user_id, i.tariff>> \in accepted

\* C7 as claimed: a user with no row in codes is offered the zero-price
\* tariff, and once a code has been issued to a user the zero-price tariff
\* is not offered to them again (stated for the menus whose is_new_user
\* query ran).
Cex_C7 ==
    \A p \in Procs : proc[p].kind = "menu" =>
        /\ ~proc[p].had_row => proc[p].reply = "keyboard-with-free"
        /\ proc[p].had_code /\ proc[p].store_ok => proc[p].reply = "keyboard"

\* C8 as claimed: every result generate_code has returned is a row of
\* codes with that code, session id, user, the tariff's duration and
\* expiry = issue time + duration.
Cex_C8 ==
    \A i \in issued :
        \E r \in codes :
            /\ r.code = i.code /\ r.session_id = i.session_id /\ r.user_id = i.user_id
            /\ r.duration_minutes = TARIFFS[i.tariff]
            /\ r.expires_at = r.issued_at + TARIFFS[i.tariff]

\* C9: the sessions answer gives a code issued at T for d minutes as
\* active at every clock before T + d and as expired from T + d on, and
\* shows the code value on the lines of active sessions only.
Thm_C9 ==
    \A p \in Procs : proc[p].kind = "sessions" =>
        /\ \A line \in proc[p].sessions :
               \E r \in codes :
                   /\ r.code = line.id /\ r.user_id = proc[p].user
                   /\ line.status = IF proc[p].at < r.issued_at + r.duration_minutes
                                    THEN "active" ELSE "expired"
                   /\ line.code = IF line.status = "active" THEN r.code ELSE 0
        /\ proc[p].store_ok =>
               \A r \in codes : r.user_id = proc[p].user =>
                   \E line \in proc[p].sessions : line.id = r.code

\* a session is reported expired at exactly T + d
Wit_C9 ==
    \E p \in Procs :
        /\ proc[p].kind = "sessions"
        /\ \E line \in proc[p].sessions, r \in codes :
               /\ r.code = line.id
               /\ proc[p].at = r.issued_at + r.duration_minutes
               /\ line.status = "expired" /\ line.code = 0

LedgerUnique ==
    \A r1 \in receipt_transactions, r2 \in receipt_transactions :
        r1.receipt_id = r2.receipt_id => r1 = r2

LedgerKeeps ==
    \A r \in receipt_transactions :
        \E r2 \in receipt_transactions' : r2.receipt_id = r.receipt_id

\* C3: under any interleaving of uploads the ledger holds at most one
\* record per transaction id (so no two users hold a record for one id),
\* and a committed id is never removed from the ledger.
Thm_C3 == []LedgerUnique /\ [][LedgerKeeps]_vars

\* two uploads of one transaction id by different users have both been
\* accepted and committed, and the ledger holds a record for the id
Wit_C3 ==
    \E p \in Procs, q \in Procs :
        /\ proc[p].reply = "accepted" /\ proc[q].reply = "accepted"
        /\ proc[p].store_ok /\ proc[q].store_ok
        /\ proc[p].user # proc[q].user
        /\ proc[p].committed = proc[q].committed
        /\ \E r \in receipt_transactions : r.receipt_id = proc[p].committed

\* task p has come back from log_suspicious_receipt
Recorded(p) == proc[p].kind = "upload" /\ proc[p].pc = "done" /\ proc[p].count > 0

\* the pairs a counter can be kept for
Pairs == {<<r.user_id, r.file_name>> : r \in suspicious_receipts \cup suspicious_receipts'}

\* no counter decreases or disappears
CountsGrow ==
    \A pair \in Pairs : StoredCount(pair[1], pair[2])' >= StoredCount(pair[1], pair[2])

\* task p executes the INSERT of log_suspicious_receipt
RecordStep(p) == proc[p].pc = "up_suspicious" /\ proc'[p].pc = "up_count"

\* a step that records a failure moves the counter of its pair by exactly
\* `by`, and no step changes the counter of any other pair
CountsMove(p, by) ==
    LET mine == <<proc[p].user, proc[p].file.file_name>>
    IN  /\ RecordStep(p) =>
              StoredCount(mine[1], mine[2])' = StoredCount(mine[1], mine[2]) + by
        /\ \A pair \in Pairs : ~(RecordStep(p) /\ pair = mine) =>
              StoredCount(pair[1], pair[2])' = StoredCount(pair[1], pair[2])

Blocked(user_id) == is_user_blocked(user_id, TRUE)

\* C12: once the block flag of a user is set, no step of the pipeline
\* clears it: the user is blocked in every later state.
Thm_C12 == [][\A user_id \in Users : Blocked(user_id) => Blocked(user_id)']_vars

\* a failure of the blocked user has been recorded on the row that carries
\* the flag (the upload's block check had failed), and the flag is still set
Wit_C12 ==
    \E r \in suspicious_receipts :
        /\ r.user_id = "u1" /\ r.is_blocked
        /\ r.receipt_count > SUSPICIOUS_RECEIPT_LIMIT

\* C13 as claimed: while the block flag of a user is set, none of their
\* events gets past the block check: no tariff is selected for them, no
\* receipt of theirs is validated (the check's query running) and no
\* access code is issued to them.
Cex_C13 ==
    \A user_id \in Users : Blocked(user_id) =>
        /\ user_tariffs[user_id] = NoTariff
        /\ ~\E i \in issued : i.user_id = user_id
        /\ \A p \in Procs :
               proc[p].user = user_id /\ proc[p].kind = "upload" /\ ~proc[p].db_failed =>
                   proc[p].reply = "blocked"

\* the webhook POSTs attempted for the issuance task p has made
NotificationsOf(p) ==
    {k \in 1..Len(notified) :
        notified[k] = [user_id |-> proc[p].user, session_id |-> proc[p].session_id]}

\* C14 as claimed: when a handler that has issued a code (free on tariff
\* selection, free or paid on check-payment) has returned, exactly one
\* notification with the user id and the session id of that issuance has
\* been attempted.
Cex_C14 ==
    \A p \in Procs : proc[p].pc = "done" /\ proc[p].code # 0 =>
        Cardinality(NotificationsOf(p)) = 1

\* task p stands before its call of notify_website
Notifying(p) == proc[p].pc \in {"pt_notify", "cp_notify"}

\* what the issuance of task p consists of has been done: generate_code has
\* returned the code (and written the row, unless a statement of the task
\* failed), the code is in the answer sent, and on check-payment the
\* payment is logged and the selection removed
IssuanceComplete(p) ==
    /\ \E i \in issued : i.code = proc[p].code /\ i.session_id = proc[p].session_id
                            /\ i.user_id = proc[p].user /\ i.tariff = proc[p].tariff
    /\ proc[p].reply \in {"free-code", "code"}
    /\ ~proc[p].db_failed =>
           \E r \in codes : r.code = proc[p].code /\ r.user_id = proc[p].user
                              /\ r.session_id = proc[p].session_id
    /\ proc[p].kind = "checkpayment" =>
           /\ user_tariffs[proc[p].user] = NoTariff
           /\ ~proc[p].db_failed =>
                  /\ payments # <<>>
                  /\ payments[Len(payments)] =
                         [user_id |-> proc[p].user,
                          amount |-> tariff_prices[proc[p].tariff],
                          tariff |-> proc[p].tariff]

\* the step of task p that attempts the notification
NotifyStep(p) == Notifying(p) /\ proc'[p] # proc[p]

\* the notification changes nothing of the issuance and the handler returns
\* as usual, whatever the POST came to
NotifyLeaves(p) ==
    NotifyStep(p) =>
        /\ proc'[p].pc = "done"
        /\ proc'[p].notify \in NotifyOutcomes
        /\ proc'[p] = [proc[p] EXCEPT !.pc = "done", !.notify = proc'[p].notify]
        /\ UNCHANGED <<codes, payments, user_tariffs, issued, receipt_transactions>>
        /\ IssuanceComplete(p)'

\* C15: when the notification is attempted the issuance is complete (row,
\* code delivered, payment logged, selection cleared), and the outcome is
\* the same whether the POST succeeds, fails or times out: nothing is
\* raised to the handler and nothing of the issuance changes.
Thm_C15 == [](Notifying(1) => IssuanceComplete(1)) /\ [][NotifyLeaves(1)]_vars

\* a paid issuance whose notification timed out: the handler has returned
\* with the code delivered, the row and the payment written and the
\* selection cleared
Wit_C15 ==
    /\ proc[1].kind = "checkpayment" /\ proc[1].pc = "done"
    /\ proc[1].notify = "timeout" /\ ~proc[1].db_failed
    /\ tariff_prices[proc[1].tariff] > 0
    /\ IssuanceComplete(1)

\* the step dispatches a tariff selection of user_id
SelectStep(user_id) ==
    /\ nEvents' = nEvents + 1
    /\ proc'[1].kind = "tariff" /\ proc'[1].user = user_id

\* the step in which check-payment, having issued a code of a paid tariff
\* to user_id, sends it and removes the selection
PaidIssueStep(user_id) ==
    /\ proc[1].kind = "checkpayment" /\ proc[1].user = user_id
    /\ proc[1].pc = "cp_answer" /\ proc'[1].pc = "cp_notify"
    /\ tariff_prices[proc[1].tariff] > 0
    /\ proc[1].code # 0 /\ proc'[1].reply = "code"

\* C16: the entry of a user in user_tariffs is removed only by the paid
\* issuance of check-payment for that user and otherwise changed only by
\* that user's tariff selection, which overwrites it with the tariff
\* selected; no other step (free issuance, upload, refused check-payment,
\* another user's event) changes it.
Thm_C16 ==
    [][\A user_id \in Users :
          /\ user_tariffs'[user_id] # user_tariffs[user_id] =>
                 SelectStep(user_id) \/ PaidIssueStep(user_id)
          /\ SelectStep(user_id) =>
                 user_tariffs'[user_id] = proc'[1].tariff /\ proc'[1].tariff \in Tariffs
          /\ PaidIssueStep(user_id) => user_tariffs'[user_id] = NoTariff
          /\ user_tariffs'[user_id] = NoTariff /\ user_tariffs[user_id] # NoTariff =>
                 PaidIssueStep(user_id)]_vars

\* check-payment has issued a paid code to a user and removed their
\* selection, after a free code was issued to the other user, whose
\* selection is still in the cache
Wit_C16 ==
    \E user_id \in Users, other \in Users :
        /\ proc[1].kind = "checkpayment" /\ proc[1].user = user_id /\ proc[1].pc = "cp_notify"
        /\ tariff_prices[proc[1].tariff] > 0
        /\ user_tariffs[user_id] = NoTariff
        /\ other # user_id /\ user_tariffs[other] = FREE
        /\ \E i \in issued : i.user_id = other /\ i.tariff = FREE

\* the receipt of task p has come to the age test of the timestamp rule:
\* the rules before it pass and a receipt time was read
AgeTested(p) ==
    /\ Validated(p)
    /\ ~AmountFails(p) /\ ~RecipientFails(p)
    /\ ReceiptTime(proc[p].file.text).ok

\* minutes from the receipt time of task p's receipt to now
Age(p) == now - ReceiptTime(proc[p].file.text).at

\* C17: the timestamp rule rejects with time-too-old exactly when now minus
\* the receipt time is strictly greater than the maximum age; a receipt
\* whose age equals the maximum, and a receipt dated in the future, passes
\* the rule and is accepted when the other rules pass.
Thm_C17 ==
    \A p \in Procs : AgeTested(p) =>
        /\ proc[p].reason = "time-too-old" <=> Age(p) > RECEIPT_MAX_AGE_MINUTES
        /\ Age(p) = RECEIPT_MAX_AGE_MINUTES \/ Age(p) < 0 =>
               /\ proc[p].reason \notin {"time-too-old", "time-unparsable"}
               /\ ~TransactionIdFails(p) => proc[p].valid /\ proc[p].reason = "accepted"

\* a receipt dated one hour ahead of now has been accepted
Wit_C17 ==
    \E p \in Procs :
        /\ AgeTested(p)
        /\ Age(p) = -60
        /\ proc[p].valid

\* the receipt of task p has come to the timestamp rule
TimeRuleReached(p) == Validated(p) /\ ~AmountFails(p) /\ ~RecipientFails(p)

\* the leftmost match of each pattern in the receipt of task p, parsed
FirstPattern(p) ==
    LET text == proc[p].file.text
    IN  IF SearchDMY(text) # 0 THEN ParseDMY(text, SearchDMY(text)) ELSE NoTime

SecondPattern(p) ==
    LET text == proc[p].file.text
    IN  IF SearchISO(text) # 0 THEN ParseISO(text, SearchISO(text)) ELSE NoTime

\* the timestamp rule decides on the receipt time `at` and nothing else
DecidedFrom(p, at) ==
    /\ proc[p].reason # "time-unparsable"
    /\ proc[p].reason = "time-too-old" <=> now - at > RECEIPT_MAX_AGE_MINUTES

\* C18 as claimed: whenever the first pattern matches anywhere in the text
\* the receipt time is the one of that match and the second pattern plays
\* no part; time-unparsable is returned only when neither pattern matches.
Cex_C18 ==
    \A p \in Procs : TimeRuleReached(p) =>
        LET text == proc[p].file.text
        IN  /\ SearchDMY(text) # 0 =>
                   FirstPattern(p).ok /\ DecidedFrom(p, FirstPattern(p).at)
            /\ proc[p].reason = "time-unparsable" =>
                   SearchDMY(text) = 0 /\ SearchISO(text) = 0

\* C18, amended: the patterns are tried in the order DD.MM.YYYY HH:MM,
\* YYYY-MM-DDTHH:MM, each on its leftmost match, and the first whose match
\* is a valid date and time wins: when the first pattern's match parses,
\* the time is decided from it alone; when it does not, the second pattern
\* is consulted; time-unparsable is returned exactly when no pattern has a
\* leftmost match that parses.
Thm_C18 ==
    \A p \in Procs : TimeRuleReached(p) =>
        /\ FirstPattern(p).ok => DecidedFrom(p, FirstPattern(p).at)
        /\ ~FirstPattern(p).ok /\ SecondPattern(p).ok => DecidedFrom(p, SecondPattern(p).at)
        /\ proc[p].reason = "time-unparsable" <=>
               ~FirstPattern(p).ok /\ ~SecondPattern(p).ok

\* a receipt with 31.02.2024 00:10 and a valid time of the second pattern:
\* the first pattern matches and does not parse, and the receipt is
\* accepted on the time of the second
Wit_C18 ==
    \E p \in Procs :
        /\ TimeRuleReached(p)
        /\ SearchDMY(proc[p].file.text) # 0 /\ ~FirstPattern(p).ok
        /\ SecondPattern(p).ok
        /\ proc[p].valid

\* task p executes the statement of log_transaction, and the statement runs
CommitStep(p) ==
    proc[p].pc = "up_commit" /\ proc'[p].pc = "done" /\ proc'[p].store_ok

\* C19 as claimed: a commit that runs leaves exactly one record for its
\* id, owned by the committing user and stamped with the time of the
\* commit, whether or not the id had a record before.
Cex_C19 ==
    [][\A p \in Procs : CommitStep(p) =>
          LET records == {r \in receipt_transactions' : r.receipt_id = proc'[p].committed}
          IN  /\ Cardinality(records) = 1
              /\ \A r \in records : r.user_id = proc[p].user /\ r.used_at = now]_vars

\* C20: the existence check and the commit are separate statements, and
\* the commit tests nothing: an upload that has passed the check is
\* reported as accepted whatever the ledger holds by the time it commits.
\* So two concurrent uploads of one id that both pass the check before
\* either commits are both accepted.
Thm_C20 ==
    [][\A p \in Procs : proc[p].pc = "up_commit" /\ proc'[p] # proc[p] =>
          /\ proc'[p].pc = "done"
          /\ proc'[p].reply = "accepted"
          /\ proc'[p].committed = proc[p].checked]_vars

\* duplicate acceptance: two uploads of one id have both been answered as
\* accepted, and every store statement of both ran, so each existence
\* check found no record: both passed it before either committed
Wit_C20 ==
    \E p \in Procs, q \in Procs :
        /\ p # q
        /\ proc[p].kind = "upload" /\ proc[q].kind = "upload"
        /\ proc[p].pc = "done" /\ proc[q].pc = "done"
        /\ proc[p].reply = "accepted" /\ proc[q].reply = "accepted"
        /\ proc[p].checked = proc[q].checked
        /\ ~proc[p].db_failed /\ ~proc[q].db_failed

\* the refusals handle_payment_proof answers before it downloads the file
Refusals == {"blocked", "select-tariff-first", "not-pdf", "too-big"}

\* the latest store operation of task p raised, and it was the block check
\* of cmd_start or of handle_payment_proof
BlockCheckFailed(p) ==
    /\ ~proc[p].store_ok
    /\ \/ proc[p].kind = "start"
       \/ /\ proc[p].kind = "upload"
          /\ \/ proc[p].pc = "up_validate"
             \/ proc[p].pc = "done" /\ proc[p].reply \in Refusals

\* ... and it was the existence check of validate_receipt
LedgerCheckFailed(p) ==
    /\ ~proc[p].store_ok
    /\ proc[p].kind = "upload" /\ proc[p].pc \in {"up_commit", "up_suspicious"}

\* ... and it was the is_new_user check of the tariff keyboard
NewUserCheckFailed(p) ==
    ~proc[p].store_ok /\ proc[p].kind = "menu"

\* ... and it was the receipt lookup of check-payment on a paid tariff
ReceiptLookupFailed(p) ==
    /\ ~proc[p].store_ok
    /\ proc[p].kind = "checkpayment" /\ proc[p].code = 0

\* the positions a handler task can be at
Positions ==
    {"done", "pt_issue", "pt_notify", "up_validate", "up_commit", "up_suspicious",
     "up_count", "cp_free", "cp_lookup", "cp_issue", "cp_pay", "cp_answer", "cp_notify"}

\* C21: a store operation that fails is not raised to the handler and is
\* not run again; the handler goes on as if no record had been found: a
\* failed block check lets the user through, a failed existence check
\* finds the transaction id unused, a failed is_new_user check offers the
\* free tariff, and a failed receipt lookup of check-payment denies the code.
Thm_C21 ==
    /\ [](\A p \in Procs :
            /\ proc[p].pc \in Positions
            /\ BlockCheckFailed(p) => proc[p].reply # "blocked"
            /\ LedgerCheckFailed(p) =>
                   proc[p].valid /\ proc[p].reason = "accepted" /\ proc[p].pc = "up_commit"
            /\ NewUserCheckFailed(p) =>
                   proc[p].reply = "keyboard-with-free" /\ FREE \in offered[proc[p].user]
            /\ ReceiptLookupFailed(p) =>
                   proc[p].pc = "done" /\ proc[p].reply = "receipt-not-found")
    /\ [][\A p \in Procs :
            proc'[p] # proc[p] /\ nEvents' = nEvents /\ ~proc'[p].store_ok =>
                proc'[p].pc # proc[p].pc]_vars

\* the block check of an upload of a blocked user has raised, and the
\* upload has gone on to validation
Wit_C21 ==
    \E p \in Procs :
        /\ BlockCheckFailed(p)
        /\ proc[p].kind = "upload" /\ proc[p].pc = "up_validate"
        /\ Blocked(proc[p].user)

\* the step leaves the ledger and the suspicious records as they are
RecordsUnchanged ==
    /\ receipt_transactions' = receipt_transactions
    /\ suspicious_receipts' = suspicious_receipts

\* the step is one of an upload handled by task p: its dispatch or a later
\* statement of the handler
UploadStep(p) ==
    /\ proc'[p] # proc[p]
    /\ proc'[p].kind = "upload"

\* the step is the recording statement of an upload that validation accepted
AcceptedStep(p) ==
    UploadStep(p) /\ proc[p].pc = "up_commit"

\* the step is the recording statement of an upload that validation rejected
RejectedStep(p) ==
    UploadStep(p) /\ proc[p].pc = "up_suspicious"

\* C22 as claimed: the recording statement of an accepted upload leaves a
\* ledger record of its transaction id owned by the submitting user and
\* changes no suspicious record; the recording statement of a rejected
\* upload adds exactly one failure to the counter of (user, filename),
\* changes no other counter and leaves the ledger; every other step of an
\* upload, and so each upload refused before validation, changes neither.
Cex_C22 ==
    [][\A p \in Procs :
          /\ AcceptedStep(p) =>
                 /\ \E r \in receipt_transactions' :
                        /\ r.receipt_id = HandlerTransactionId(proc[p].file.file_name)
                        /\ r.user_id = proc[p].user
                 /\ suspicious_receipts' = suspicious_receipts
          /\ RejectedStep(p) =>
                 /\ StoredCount(proc[p].user, proc[p].file.file_name)' =
                        StoredCount(proc[p].user, proc[p].file.file_name) + 1
                 /\ \A r \in suspicious_receipts :
                        <<r.user_id, r.file_name>> # <<proc[p].user, proc[p].file.file_name>>
                            => r \in suspicious_receipts'
                 /\ Cardinality(suspicious_receipts') <= Cardinality(suspicious_receipts) + 1
                 /\ receipt_transactions' = receipt_transactions
          /\ UploadStep(p) /\ ~AcceptedStep(p) /\ ~RejectedStep(p) => RecordsUnchanged
          /\ UploadStep(p) /\ proc'[p].reply \in Refusals => proc'[p].pc = "done"]_vars

\* the paid codes generate_code has returned to user_id
PaidCodes(user_id) ==
    {i \in issued : i.user_id = user_id /\ tariff_prices[i.tariff] > 0}

\* C23 as claimed: the number of paid codes issued to a user never exceeds
\* the number of that user's receipts that validation accepted.
Cex_C23 ==
    \A user_id \in Users : Cardinality(PaidCodes(user_id)) <= nAccepted[user_id]

====
